---- MODULE Spec2Model ----
(***************************************************************************)
(* Model of the viral-analysis service (api/services/viral.py) and of the  *)
(* two request handlers of api/routers/analyze.py.                         *)
(*                                                                         *)
(* Text is modelled as a sequence of one-character strings, so that        *)
(* lower-casing, substring search, stripping and whitespace splitting are  *)
(* computed the way Python computes them on ASCII text.                    *)
(***************************************************************************)
EXTENDS Integers, Sequences, FiniteSets, TLC

VARIABLES
    s_pc,        \* position inside calculate_viral_score
    s_in,        \* its arguments: content, title, views, likes
    s_category,  \* local `category`
    s_gemini,    \* what gemini_service._generate_content did
    s_words,     \* local `engaging_words`
    s_parts,     \* the five increments added to local `score`
    s_result,    \* value returned by calculate_viral_score
    h_pc,          \* position inside the request handler
    h_req,         \* the request: its kind, youtube_url, file.filename
    h_meta,        \* local `video_metadata`
    h_transcript,  \* local `transcript`
    h_summary,     \* local `overall_summary`
    h_explanation, \* local `viral_explanation`
    h_recs,        \* local `recommendations`
    h_score,       \* local `viral_score`
    h_resp,        \* what the handler returned or raised
    h_pending,     \* return value or exception travelling through `finally`
    h_calls,       \* the external calls made so far, in order
    h_failed,      \* the steps of this request that raised
    h_fs,          \* temporary files on disk
    h_tmp,         \* the temporary file this request created
    h_text,        \* local `document_text`
    d_pc,          \* position inside _parse_duration
    d_in,          \* its argument duration_str
    d_rest,        \* duration_str after the prefix was cut off
    d_groups,      \* time_matches.groups()
    d_out          \* value returned by _parse_duration

s_vars == <<s_pc, s_in, s_category, s_gemini, s_words, s_parts, s_result>>

h_vars == <<h_pc, h_req, h_meta, h_transcript, h_summary, h_explanation, h_recs,
            h_score, h_resp, h_pending, h_calls, h_failed, h_fs, h_tmp, h_text>>

d_vars == <<d_pc, d_in, d_rest, d_groups, d_out>>

vars == <<s_vars, h_vars, d_vars>>

-----------------------------------------------------------------------------
(* Python string primitives on character sequences *)

Min(a, b) == IF a <= b THEN a ELSE b
Max(a, b) == IF a >= b THEN a ELSE b

\* a value that is not a string (None): every str method raises on it
NoneVal == <<"<None>">>

UpperChars == <<"A","B","C","D","E","F","G","H","I","J","K","L","M","N","O","P","Q","R","S","T","U","V","W","X","Y","Z">>
LowerChars == <<"a","b","c","d","e","f","g","h","i","j","k","l","m","n","o","p","q","r","s","t","u","v","w","x","y","z">>

\* str.lower() on the ASCII capitals
UpperToLower ==
    [c \in {UpperChars[i] : i \in 1..Len(UpperChars)} |->
        LowerChars[CHOOSE i \in 1..Len(UpperChars) : UpperChars[i] = c]]

\* str.lower() on one ASCII character
LowerChar(c) == IF c \in DOMAIN UpperToLower THEN UpperToLower[c] ELSE c

\* str.lower()
Lower(s) == [i \in 1..Len(s) |-> LowerChar(s[i])]

\* Python's `k in t` for strings
IsSubstr(k, t) ==
    \E i \in 1..(Len(t) - Len(k) + 1) :
        \A j \in 1..Len(k) : t[i + j - 1] = k[j]

IsSpace(c) == c \in {" ", "\n", "\t"}

\* len(s.split()): number of maximal runs of non-whitespace characters
WordCount(s) ==
    Cardinality({i \in 1..Len(s) :
        /\ ~IsSpace(s[i])
        /\ (i = 1 \/ IsSpace(s[i - 1]))})

\* len(s.strip())
StripLen(s) ==
    LET nz == {i \in 1..Len(s) : ~IsSpace(s[i])}
    IN  IF nz = {} THEN 0
        ELSE (CHOOSE i \in nz : \A j \in nz : j <= i)
             - (CHOOSE i \in nz : \A j \in nz : i <= j) + 1

Space == <<" ">>

RECURSIVE JoinWords(_)
\* " ".join(ws)
JoinWords(ws) ==
    IF Len(ws) = 0 THEN <<>>
    ELSE IF Len(ws) = 1 THEN ws[1]
    ELSE ws[1] \o Space \o JoinWords(Tail(ws))

-----------------------------------------------------------------------------
(* api/services/viral.py : _detect_category *)

CategoryOrder == <<"tech", "business", "tutorial", "entertainment", "education">>

CategoryKeywords ==
    [tech          |-> <<<<"a","i">>, <<"p","r","o","g","r","a","m","m","i","n","g">>, <<"s","o","f","t","w","a","r","e">>, <<"g","a","d","g","e","t">>, <<"r","e","v","i","e","w">>>>,
     business      |-> <<<<"m","a","r","k","e","t","i","n","g">>, <<"s","t","a","r","t","u","p">>, <<"f","i","n","a","n","c","e">>, <<"i","n","v","e","s","t","m","e","n","t">>, <<"s","t","r","a","t","e","g","y">>>>,
     tutorial      |-> <<<<"h","o","w"," ","t","o">>, <<"g","u","i","d","e">>, <<"s","t","e","p","-","b","y","-","s","t","e","p">>, <<"t","u","t","o","r","i","a","l">>, <<"l","e","a","r","n">>>>,
     entertainment |-> <<<<"c","o","m","e","d","y">>, <<"v","l","o","g">>, <<"c","h","a","l","l","e","n","g","e">>, <<"r","e","a","c","t","i","o","n">>>>,
     education     |-> <<<<"s","c","i","e","n","c","e">>, <<"h","i","s","t","o","r","y">>, <<"e","x","p","l","a","i","n","e","d">>, <<"d","o","c","u","m","e","n","t","a","r","y">>>>]

\* any(keyword in text_to_scan for keyword in keywords)
CategoryMatches(cat, text) ==
    \E k \in 1..Len(CategoryKeywords[cat]) : IsSubstr(CategoryKeywords[cat][k], text)

\* faulty variant: the table iterated with business ahead of tech
DetectCategorySwapped(title, content) ==
    LET text  == Lower(title \o Space \o content)
        order == <<"business", "tech", "tutorial", "entertainment", "education">>
        hits  == {i \in 1..Len(order) : CategoryMatches(order[i], text)}
    IN  IF hits = {} THEN "general"
        ELSE order[CHOOSE i \in hits : \A j \in hits : i <= j]

DetectCategory(title, content) ==
    LET text == Lower(title \o Space \o content)
        hits == {i \in 1..Len(CategoryOrder) : CategoryMatches(CategoryOrder[i], text)}
    IN  IF hits = {} THEN "general"
        ELSE CategoryOrder[CHOOSE i \in hits : \A j \in hits : i <= j]

-----------------------------------------------------------------------------
(* api/services/viral.py : _get_dynamic_engaging_words *)

\* The reply of the generative model is a sequence of tokens.  A token is a
\* brace, a comma, a JSON key, a JSON value or a stretch of brace-free prose.
\* A value carries whether it is a JSON list and its elements; an element
\* carries whether it is a JSON string.
Tok(k)        == [k |-> k, isList |-> FALSE, items |-> <<>>]
LBrace        == Tok("{")
RBrace        == Tok("}")
Comma         == Tok(",")
Prose         == Tok("prose")
KeyEngaging   == Tok("key:engaging_words")
KeyOther      == Tok("key:other")
ScalarVal     == Tok("value")
ListVal(its)  == [k |-> "value", isList |-> TRUE, items |-> its]
StrItem(s)    == [isStr |-> TRUE, s |-> s]
NumItem       == [isStr |-> FALSE, s |-> <<>>]

FallbackWords ==
    <<<<"h","o","w"," ","t","o">>, <<"w","h","y">>, <<"s","e","c","r","e","t">>, <<"a","m","a","z","i","n","g">>, <<"g","u","i","d","e">>, <<"u","l","t","i","m","a","t","e">>,
      <<"b","e","s","t">>, <<"w","o","r","s","t">>, <<"s","h","o","c","k","i","n","g">>, <<"h","a","c","k">>, <<"t","i","p","s">>, <<"t","r","i","c","k","s">>>>

\* re.search(r'\{.*\}', text, re.DOTALL): greedy, from the first "{" to the
\* last "}" after it; <<>> when there is no match
ReSearchBraces(text) ==
    LET opens  == {i \in 1..Len(text) : text[i] = LBrace}
        closes == {i \in 1..Len(text) : text[i] = RBrace}
    IN  IF opens = {} \/ closes = {} THEN <<>>
        ELSE LET a == CHOOSE i \in opens : \A j \in opens : i <= j
                 b == CHOOSE i \in closes : \A j \in closes : j <= i
             IN  IF a < b THEN SubSeq(text, a, b) ELSE <<>>

IsKey(t) == t \in {KeyEngaging, KeyOther}
IsValue(t) == t.k = "value"

\* json.loads succeeds on the matched span: a flat object "{" key value
\* ("," key value)* "}" or "{" "}"
JsonValid(span) ==
    LET inner == SubSeq(span, 2, Len(span) - 1)
    IN  /\ Len(span) >= 2
        /\ span[1] = LBrace
        /\ span[Len(span)] = RBrace
        /\ \/ Len(inner) = 0
           \/ /\ Len(inner) % 3 = 2
              /\ \A i \in 1..Len(inner) :
                    /\ (i % 3 = 1) => IsKey(inner[i])
                    /\ (i % 3 = 2) => IsValue(inner[i])
                    /\ (i % 3 = 0) => inner[i] = Comma

\* words_data.get("engaging_words", []): the last binding of the key wins
JsonGetEngaging(span) ==
    LET at == {i \in 1..Len(span) : span[i] = KeyEngaging}
    IN  IF at = {} THEN ListVal(<<>>)
        ELSE span[(CHOOSE i \in at : \A j \in at : j <= i) + 1]

\* faulty variant: a reply without a JSON object falls back to the generic list too
GetDynamicEngagingWordsNoMatchFallback(g) ==
    IF g.raised THEN FallbackWords
    ELSE LET span == ReSearchBraces(g.text)
         IN  IF span = <<>> THEN FallbackWords
             ELSE IF ~JsonValid(span) THEN FallbackWords
             ELSE LET v == JsonGetEngaging(span)
                  IN  IF v.isList /\ \A i \in 1..Len(v.items) : v.items[i].isStr
                      THEN [i \in 1..Len(v.items) |-> Lower(v.items[i].s)]
                      ELSE <<>>

\* g = [raised, text]: the outcome of `await gemini_service._generate_content`
GetDynamicEngagingWords(g) ==
    IF g.raised THEN FallbackWords                       \* except Exception
    ELSE LET span == ReSearchBraces(g.text)
         IN  IF span = <<>> THEN <<>>                     \* if not json_match
             ELSE IF ~JsonValid(span) THEN FallbackWords  \* json.loads raises
             ELSE LET v == JsonGetEngaging(span)
                  IN  IF v.isList /\ \A i \in 1..Len(v.items) : v.items[i].isStr
                      THEN [i \in 1..Len(v.items) |-> Lower(v.items[i].s)]
                      ELSE <<>>

-----------------------------------------------------------------------------
(* api/services/viral.py : calculate_viral_score *)

TitlePerHit     == 8
TitleCap        == 20
ViewsThreshold  == 1000
Baseline        == 5
QualityPerHit   == 3
QualityCap      == 20
LengthLo        == 150
LengthHi        == 700
LengthIn        == 10
LengthOut       == 5
ScoreFloor      == 0
ScoreCeiling    == 100

\* faulty variant: the error path returns a sentinel instead of a score
EngineDefaultSentinel == 0 - 1

\* return 70 in the except branch
EngineDefault == 70

\* faulty variant: the cap on the title contribution is missing
TitleScoreUncapped(words, title_lower) ==
    TitlePerHit * Cardinality({i \in 1..Len(words) : IsSubstr(words[i], title_lower)})

\* min(sum(8 for word in engaging_words if word in title_lower), 20)
TitleScore(words, title_lower) ==
    Min(TitlePerHit * Cardinality({i \in 1..Len(words) : IsSubstr(words[i], title_lower)}),
        TitleCap)

\* faulty variant: the ratio comparisons are not strict
EngagementScoreNonStrict(views, likes) ==
    IF views > ViewsThreshold
    THEN IF likes > 0 /\ likes * 1000 >= 50 * views THEN 25
         ELSE IF likes > 0 /\ likes * 1000 >= 30 * views THEN 20
         ELSE IF likes > 0 /\ likes * 1000 >= 15 * views THEN 15
         ELSE 10
    ELSE 10

\* likes / views > 0.05 etc.; for views > 0 the float comparison agrees with
\* the exact one, likes * 1000 > 50 * views, as long as views < 2^50
EngagementScore(views, likes) ==
    IF views > ViewsThreshold
    THEN IF likes > 0 /\ likes * 1000 > 50 * views THEN 25
         ELSE IF likes > 0 /\ likes * 1000 > 30 * views THEN 20
         ELSE IF likes > 0 /\ likes * 1000 > 15 * views THEN 15
         ELSE 10
    ELSE 10

QualityAndTrends ==
    <<<<"t","u","t","o","r","i","a","l">>, <<"g","u","i","d","e">>, <<"r","e","v","i","e","w">>, <<"c","o","m","p","a","r","i","s","o","n">>, <<"c","a","s","e"," ","s","t","u","d","y">>, <<"e","x","p","l","a","i","n","e","d">>,
      <<"d","o","c","u","m","e","n","t","a","r","y">>, <<"a","i">>, <<"p","r","o","d","u","c","t","i","v","i","t","y">>, <<"h","e","a","l","t","h">>, <<"f","i","n","a","n","c","e">>>>

\* min(sum(3 for indicator in quality_and_trends if indicator in content_lower), 20)
QualityScore(content_lower) ==
    Min(QualityPerHit * Cardinality({i \in 1..Len(QualityAndTrends) :
                                        IsSubstr(QualityAndTrends[i], content_lower)}),
        QualityCap)

\* faulty variant: the lower bound of the length window is exclusive
LengthScoreExclusive(content) ==
    IF LengthLo < WordCount(content) /\ WordCount(content) <= LengthHi
    THEN LengthIn ELSE LengthOut

\* if 150 <= len(content.split()) <= 700: +10 else +5
LengthScore(content) ==
    IF LengthLo <= WordCount(content) /\ WordCount(content) <= LengthHi
    THEN LengthIn ELSE LengthOut

\* max(0, min(100, score))
Clamp(score) == Max(ScoreFloor, Min(ScoreCeiling, score))

\* the increments of lines 75-91, for string arguments and the engaging
\* words already fetched
ScoreParts(content, title, views, likes, words) ==
    [title      |-> TitleScore(words, Lower(title)),
     engagement |-> EngagementScore(views, likes),
     baseline   |-> Baseline,
     quality    |-> QualityScore(Lower(content)),
     length     |-> LengthScore(content)]

\* final_score = max(0, min(100, score))
SumParts(p) == Clamp(p.title + p.engagement + p.baseline + p.quality + p.length)

\* lines 75-94
FinalScore(content, title, views, likes, words) ==
    SumParts(ScoreParts(content, title, views, likes, words))

\* content.lower() / title.lower() raise on a non-string
ScoreArgsRaise(content, title) == content = NoneVal \/ title = NoneVal

\* the whole of calculate_viral_score, g being the outcome of the model call
CalculateViralScore(content, title, views, likes, g) ==
    IF ScoreArgsRaise(content, title) THEN EngineDefault
    ELSE FinalScore(content, title, views, likes, GetDynamicEngagingWords(g))

-----------------------------------------------------------------------------
(* Inputs of the scoring service *)

MaxTitleWords == 10
MaxLikeSteps  == 2

\* n one-letter words separated by single blanks
RepeatWord(n) == [i \in 1..(2 * n) |-> IF i % 2 = 1 THEN "z" ELSE " "]

\* a title made of the first n generic engaging words, in upper case
TitleOfWords(n) == JoinWords(SubSeq(FallbackWords, 1, Min(n, Len(FallbackWords))))

RichWords == <<"T","u","t","o","r","i","a","l"," ","g","u","i","d","e"," ","r","e","v","i","e","w"," ","c","o","m","p","a","r","i","s","o","n"," ","c","a","s","e"," ","s","t","u","d","y"," ","e","x","p","l","a","i","n","e","d"," ","d","o","c","u","m","e","n","t","a","r","y"," ","p","r","o","d","u","c","t","i","v","i","t","y"," ">>

ShortContents ==
    {NoneVal, <<>>,
     <<"M","a","i","n","t","a","i","n"," ","t","h","e"," ","g","a","r","d","e","n">>,
     <<"A","I"," ","m","a","r","k","e","t","i","n","g">>,
     <<"S","t","a","r","t","u","p"," ","S","t","r","a","t","e","g","y",":"," ","h","o","w"," ","t","o"," ","l","e","a","r","n">>,
     <<"a"," ","c","o","m","e","d","y"," ","V","L","O","G"," ","a","b","o","u","t"," ","h","i","s","t","o","r","y">>,
     <<"S","c","i","e","n","c","e"," ","e","x","p","l","a","i","n","e","d">>,
     RichWords,
     RichWords \o RepeatWord(LengthLo),
     RepeatWord(1)}

\* contents around the two ends of the length window
LongContents == {RepeatWord(n) : n \in {LengthLo - 1, LengthLo, LengthHi, LengthHi + 1}}

ScoreTitles ==
    {NoneVal, <<"T","h","e"," ","S","E","C","R","E","T"," ","H","a","c","k">>, <<"M","a","r","k","e","t","i","n","g"," ","w","i","t","h"," ","A","I">>}
    \cup {TitleOfWords(n) : n \in {0, 1, MaxTitleWords}}

\* (views, likes) around the view threshold and the three ratio thresholds
ScoreEngagement ==
    {<<0, 0>>, <<500, 400>>, <<ViewsThreshold, 999>>, <<ViewsThreshold + 1, 0>>,
     <<ViewsThreshold + 1, 16>>, <<2000, 0>>}
    \cup {<<2000, 30 * k>> : k \in 1..MaxLikeSteps}
    \cup {<<2000, 30 * k + 1>> : k \in 1..MaxLikeSteps}
    \cup {<<2000, 100>>, <<2000, 101>>, <<2000, 120>>}

DynamicList == ListVal(<<StrItem(<<"S","e","c","r","e","t">>), StrItem(<<"M","A","R","K","E","T","I","N","G">>), StrItem(<<"a","i">>)>>)

GeminiReplies ==
    {<<Prose>>,
     <<LBrace, KeyEngaging, DynamicList>>,
     <<RBrace, Prose, LBrace>>,
     <<Prose, LBrace, KeyEngaging, DynamicList, RBrace, Prose>>,
     <<LBrace, KeyOther, ScalarVal, Comma, KeyEngaging, DynamicList, RBrace>>,
     <<LBrace, KeyEngaging, ListVal(<<>>), RBrace>>,
     <<LBrace, RBrace>>,
     <<LBrace, KeyOther, DynamicList, RBrace>>,
     <<LBrace, KeyEngaging, ScalarVal, RBrace>>,
     <<LBrace, KeyEngaging, ListVal(<<StrItem(<<"s","e","c","r","e","t">>), NumItem>>), RBrace>>,
     <<LBrace, KeyEngaging, RBrace>>,
     <<LBrace, KeyEngaging, DynamicList, Comma, RBrace>>,
     <<LBrace, KeyEngaging, DynamicList, RBrace, Prose, LBrace, KeyEngaging, DynamicList, RBrace>>}

GeminiOutcomes ==
    {[raised |-> TRUE, text |-> <<>>]}
    \cup {[raised |-> FALSE, text |-> t] : t \in GeminiReplies}

NoGemini == [raised |-> FALSE, text |-> <<>>]

NoParts == [title |-> 0, engagement |-> 0, baseline |-> 0, quality |-> 0, length |-> 0]

\* every short content with every title and engagement; the long contents,
\* which only the length window tells apart, with the extreme ones
ScoreInputs ==
    {[content |-> c, title |-> t, views |-> e[1], likes |-> e[2]] :
        c \in ShortContents, t \in ScoreTitles, e \in ScoreEngagement}
    \cup
    {[content |-> c, title |-> t, views |-> e[1], likes |-> e[2]] :
        c \in LongContents,
        t \in {TitleOfWords(0), TitleOfWords(MaxTitleWords)},
        e \in {<<0, 0>>, <<2000, 120>>}}

-----------------------------------------------------------------------------
(* calculate_viral_score, step by step *)

NoGroups == [hours |-> NoneVal, minutes |-> NoneVal, seconds |-> NoneVal]

\* _parse_duration is not running
DurationIdle ==
    /\ d_pc = "idle"
    /\ d_in = <<>>
    /\ d_rest = <<>>
    /\ d_groups = NoGroups
    /\ d_out = -1

\* no request is being handled
HandlerIdle ==
    /\ h_pc = "idle"
    /\ h_req = [kind |-> "none", url |-> "", filename |-> <<>>]
    /\ h_meta = [title |-> <<>>, channel_name |-> <<>>, view_count |-> 0,
                 like_count |-> 0, present |-> FALSE]
    /\ h_transcript = <<>>
    /\ h_summary = ""
    /\ h_explanation = ""
    /\ h_recs = ""
    /\ h_score = 0
    /\ h_resp = [status |-> 0]
    /\ h_pending = [status |-> 0]
    /\ h_calls = <<>>
    /\ h_failed = {}
    /\ h_fs = {}
    /\ h_tmp = ""
    /\ h_text = <<>>

InitScore ==
    /\ s_pc = "called"
    /\ s_in \in ScoreInputs
    /\ s_category = "none"
    /\ s_gemini = NoGemini
    /\ s_words = <<>>
    /\ s_parts = NoParts
    /\ s_result = -1
    /\ HandlerIdle
    /\ DurationIdle

\* lines 67-73: lower-case the arguments and detect the category
ScoreBegin ==
    /\ s_pc = "called"
    /\ IF ScoreArgsRaise(s_in.content, s_in.title)
       THEN /\ s_pc' = "returned"
            /\ s_result' = EngineDefault
            /\ UNCHANGED s_category
       ELSE /\ s_pc' = "await_words"
            /\ s_category' = DetectCategory(Lower(s_in.title), Lower(s_in.content))
            /\ UNCHANGED s_result
    /\ UNCHANGED <<s_in, s_gemini, s_words, s_parts, h_vars, d_vars>>

\* line 74: await self._get_dynamic_engaging_words(category, content)
ScoreWords ==
    /\ s_pc = "await_words"
    /\ \E g \in GeminiOutcomes :
          /\ s_gemini' = g
          /\ s_words' = GetDynamicEngagingWords(g)
    /\ s_pc' = "compute"
    /\ UNCHANGED <<s_in, s_category, s_parts, s_result, h_vars, d_vars>>

\* lines 75-94
ScoreCompute ==
    /\ s_pc = "compute"
    /\ s_parts' = ScoreParts(s_in.content, s_in.title, s_in.views, s_in.likes, s_words)
    /\ s_result' = SumParts(s_parts')
    /\ s_pc' = "returned"
    /\ UNCHANGED <<s_in, s_category, s_gemini, s_words, h_vars, d_vars>>

NextScore == ScoreBegin \/ ScoreWords \/ ScoreCompute

SpecScore == InitScore /\ [][NextScore]_vars

-----------------------------------------------------------------------------
(* api/routers/analyze.py : values shared by the two handlers *)

\* calculate_viral_score(self, content, title, views, likes, comments): the
\* parameters after self, none of which has a default
ScorerRequiredArgs == 5

\* positional arguments passed at analyze.py lines 94-99 and 174-179
ContentCallArgs  == 4
DocumentCallArgs == 4

ContentDefaultScore  == 65
DocumentDefaultScore == 70

VeryHighFrom == 80
GoodFrom     == 60

\* `await viral_service.calculate_viral_score(...)` with nargs positional
\* arguments: binding the arguments raises TypeError when one is missing,
\* before the body runs
CallViralScore(nargs, content, title, views, likes, g) ==
    IF nargs # ScorerRequiredArgs
    THEN [raised |-> TRUE, value |-> 0]
    ELSE [raised |-> FALSE, value |-> CalculateViralScore(content, title, views, likes, g)]

RECURSIVE IntToStr(_)
\* str(n) for n >= 0, as the f-strings format the counts
IntToStr(n) ==
    LET digits == <<"0","1","2","3","4","5","6","7","8","9">>
    IN  IF n < 10 THEN <<digits[n + 1]>>
        ELSE IntToStr(n \div 10) \o <<digits[(n % 10) + 1]>>

NoResponse == [status |-> 0]

ErrorResponse(code) == [status |-> code]

\* AnalyzeResponse(...)
AnalyzeResponse(meta, summary, score, label, explanation, recs, doc_summary) ==
    [status |-> 200, video_metadata |-> meta, summary |-> summary,
     timeline_summary |-> <<>>, viral_score |-> score, viral_label |-> label,
     viral_explanation |-> explanation, recommendations |-> recs,
     doc_summary |-> doc_summary]

NoMeta == [title |-> <<>>, channel_name |-> <<>>, view_count |-> 0, like_count |-> 0,
           present |-> FALSE]

-----------------------------------------------------------------------------
(* api/routers/analyze.py : analyze_content *)

\* faulty variant: the upper threshold is exclusive
ContentLabelExclusive(score) ==
    IF score > VeryHighFrom THEN "Very High Potential"
    ELSE IF score >= GoodFrom THEN "Good Potential"
    ELSE "Needs Improvement"

\* lines 106-111
ContentLabel(score) ==
    IF score >= VeryHighFrom THEN "Very High Potential"
    ELSE IF score >= GoodFrom THEN "Good Potential"
    ELSE "Needs Improvement"

ShortTranscriptFallback ==
    <<"C","o","n","t","e","n","t"," ","a","n","a","l","y","s","i","s"," ","b","a","s","e","d"," ","o","n"," ","v","i","d","e","o"," ","m","e","t","a","d","a","t","a"," ","a","n","d"," ","a","v","a","i","l","a","b","l","e"," ","i","n","f","o","r","m","a","t","i","o","n",".">>

ProcessingErrorFallback(title) ==
    <<"A","n","a","l","y","s","i","s"," ","b","a","s","e","d"," ","o","n"," ","v","i","d","e","o"," ","m","e","t","a","d","a","t","a",":"," ">> \o title
    \o <<"."," ","T","h","i","s"," ","v","i","d","e","o"," ","a","p","p","e","a","r","s"," ","t","o"," ","c","o","n","t","a","i","n"," ","v","a","l","u","a","b","l","e"," ","c","o","n","t","e","n","t"," ","b","a","s","e","d"," ","o","n"," ","i","t","s"," ","t","i","t","l","e"," ","a","n","d"," ","e","n","g","a","g","e","m","e","n","t"," ","m","e","t","r","i","c","s",".">>

GenericErrorFallback(title) ==
    <<"C","o","n","t","e","n","t"," ","a","n","a","l","y","s","i","s"," ","f","o","r",":"," ">> \o title
    \o <<"."," ","B","a","s","e","d"," ","o","n"," ","t","h","e"," ","v","i","d","e","o"," ","m","e","t","a","d","a","t","a"," ","a","n","d"," ","e","n","g","a","g","e","m","e","n","t"," ","m","e","t","r","i","c","s",","," ","t","h","i","s"," ","a","p","p","e","a","r","s"," ","t","o"," ","b","e"," ","v","a","l","u","a","b","l","e"," ","c","o","n","t","e","n","t",".">>

MetadataFallback(meta) ==
    <<"V","i","d","e","o"," ","a","n","a","l","y","s","i","s"," ","f","o","r"," ","'">> \o meta.title \o <<"'"," ","b","y"," ">> \o meta.channel_name
    \o <<"."," ","T","h","i","s"," ","c","o","n","t","e","n","t"," ","h","a","s"," ","r","e","c","e","i","v","e","d"," ">> \o IntToStr(meta.view_count)
    \o <<" ","v","i","e","w","s"," ","a","n","d"," ">> \o IntToStr(meta.like_count)
    \o <<" ","l","i","k","e","s",","," ","i","n","d","i","c","a","t","i","n","g"," ","a","u","d","i","e","n","c","e"," ","e","n","g","a","g","e","m","e","n","t",".">>

\* faulty variant: a video processing error is turned into an HTTP error instead of
\* the fallback transcript
ResolveTranscriptRaising(o, meta) ==
    IF o.kind = "processing_error" THEN [raised |-> TRUE, text |-> <<>>]
    ELSE IF o.kind = "error"
    THEN [raised |-> FALSE, text |-> GenericErrorFallback(meta.title)]
    ELSE IF o.text = NoneVal \/ o.text = <<>> \/ StripLen(o.text) < 20
    THEN [raised |-> FALSE, text |-> ShortTranscriptFallback]
    ELSE [raised |-> FALSE, text |-> o.text]

\* lines 41-55: o is what transcriber_service.get_transcript did; the result
\* says whether an exception leaves the block and the value of `transcript`
ResolveTranscript(o, meta) ==
    IF o.kind = "processing_error"
    THEN [raised |-> FALSE, text |-> ProcessingErrorFallback(meta.title)]
    ELSE IF o.kind = "error"
    THEN [raised |-> FALSE, text |-> GenericErrorFallback(meta.title)]
    ELSE IF o.text = NoneVal \/ o.text = <<>> \/ StripLen(o.text) < 20
    THEN [raised |-> FALSE, text |-> ShortTranscriptFallback]
    ELSE [raised |-> FALSE, text |-> o.text]

\* lines 58-59
EnsureContent(transcript, meta) ==
    IF StripLen(transcript) < 10 THEN MetadataFallback(meta) ELSE transcript

\* lines 64-69, 71-81, 83-90: the value bound after each try/except
SummaryOf(ok)        == IF ok THEN "summary from the model" ELSE "fallback summary"
ExplanationOf(ok)    == IF ok THEN "explanation from the model" ELSE "fallback explanation"
RecommendationOf(ok) == IF ok THEN "recommendation from the model" ELSE "fallback recommendation"

\* inputs of analyze_content
Urls == {"", "https://youtu.be/xyz789"}

MetaTitles == {<<>>, <<"A","I"," ","M","a","r","k","e","t","i","n","g"," ","S","e","c","r","e","t","s">>}

Metas ==
    {[title |-> t, channel_name |-> <<"C","h","a","n">>, view_count |-> e[1], like_count |-> e[2],
      present |-> TRUE] : t \in MetaTitles, e \in {<<0, 0>>, <<2000, 120>>}}

LongTranscript ==
    <<"W","e","l","c","o","m","e"," ","b","a","c","k","."," ","T","o","d","a","y"," ","w","e"," ","c","o","m","p","a","r","e"," ","t","h","r","e","e"," ","l","a","p","t","o","p","s"," ","a","n","d"," ","e","x","p","l","a","i","n"," ","w","h","i","c","h"," ","o","n","e"," ","t","o"," ","b","u","y",".">>

TranscriptTexts ==
    {NoneVal, <<>>, <<" "," "," ">>, <<"t","o","o"," ","s","h","o","r","t">>,
     <<" "," ","n","i","n","e","t","e","e","n"," ","c","h","a","r","a","c","t","e","r","s"," "," ">>,
     <<"e","x","a","c","t","l","y"," ","t","w","e","n","t","y"," ","c","h","a","r","s">>,
     LongTranscript}

TranscriptOutcomes ==
    {[kind |-> "processing_error", text |-> <<>>], [kind |-> "error", text |-> <<>>]}
    \cup {[kind |-> "ok", text |-> t] : t \in TranscriptTexts}

\* lines 29-32
ContentValidate ==
    /\ h_pc = "idle"
    /\ \E url \in Urls :
          /\ h_req' = [kind |-> "content", url |-> url, filename |-> <<>>]
          /\ IF url = ""
             THEN /\ h_resp' = ErrorResponse(400)
                  /\ h_pc' = "done"
             ELSE /\ h_resp' = h_resp
                  /\ h_pc' = "c_metadata"
    /\ UNCHANGED <<h_meta, h_transcript, h_summary, h_explanation, h_recs, h_score,
                   h_pending, h_calls, h_failed, h_fs, h_tmp, h_text, s_vars, d_vars>>

\* lines 36-38: the provider returns metadata, returns None or raises
ContentMetadata ==
    /\ h_pc = "c_metadata"
    /\ h_calls' = Append(h_calls, "get_video_metadata")
    /\ \/ \E m \in Metas :
             /\ h_meta' = m
             /\ h_pc' = "c_transcript"
             /\ UNCHANGED h_resp
       \/ /\ h_resp' = ErrorResponse(404)
          /\ h_pc' = "done"
          /\ UNCHANGED h_meta
       \/ /\ h_resp' = ErrorResponse(500)
          /\ h_pc' = "done"
          /\ UNCHANGED h_meta
    /\ UNCHANGED <<h_req, h_transcript, h_summary, h_explanation, h_recs, h_score,
                   h_pending, h_failed, h_fs, h_tmp, h_text, s_vars, d_vars>>

\* lines 41-61
ContentTranscript ==
    /\ h_pc = "c_transcript"
    /\ h_calls' = Append(h_calls, "get_transcript")
    /\ \E o \in TranscriptOutcomes :
          LET r == ResolveTranscript(o, h_meta)
          IN  /\ h_failed' = IF o.kind = "ok" THEN h_failed ELSE h_failed \cup {o.kind}
              /\ IF r.raised
                 THEN /\ h_resp' = ErrorResponse(500)
                      /\ h_pc' = "done"
                      /\ UNCHANGED h_transcript
                 ELSE /\ h_transcript' = EnsureContent(r.text, h_meta)
                      /\ h_pc' = "c_summary"
                      /\ UNCHANGED h_resp
    /\ UNCHANGED <<h_req, h_meta, h_summary, h_explanation, h_recs, h_score,
                   h_pending, h_fs, h_tmp, h_text, s_vars, d_vars>>

\* lines 64-69
ContentSummary ==
    /\ h_pc = "c_summary"
    /\ h_calls' = Append(h_calls, "summarize_transcript")
    /\ \E ok \in BOOLEAN :
          /\ h_summary' = SummaryOf(ok)
          /\ h_failed' = IF ok THEN h_failed ELSE h_failed \cup {"summary"}
    /\ h_pc' = "c_explain"
    /\ UNCHANGED <<h_req, h_meta, h_transcript, h_explanation, h_recs, h_score,
                   h_resp, h_pending, h_fs, h_tmp, h_text, s_vars, d_vars>>

\* lines 71-81
ContentExplain ==
    /\ h_pc = "c_explain"
    /\ h_calls' = Append(h_calls, "explain_why_viral")
    /\ \E ok \in BOOLEAN :
          /\ h_explanation' = ExplanationOf(ok)
          /\ h_failed' = IF ok THEN h_failed ELSE h_failed \cup {"explanation"}
    /\ h_pc' = "c_recommend"
    /\ UNCHANGED <<h_req, h_meta, h_transcript, h_summary, h_recs, h_score,
                   h_resp, h_pending, h_fs, h_tmp, h_text, s_vars, d_vars>>

\* lines 83-90
ContentRecommend ==
    /\ h_pc = "c_recommend"
    /\ h_calls' = Append(h_calls, "generate_content_idea")
    /\ \E ok \in BOOLEAN :
          /\ h_recs' = RecommendationOf(ok)
          /\ h_failed' = IF ok THEN h_failed ELSE h_failed \cup {"recommendation"}
    /\ h_pc' = "c_score"
    /\ UNCHANGED <<h_req, h_meta, h_transcript, h_summary, h_explanation, h_score,
                   h_resp, h_pending, h_fs, h_tmp, h_text, s_vars, d_vars>>

\* lines 93-103
ContentScore ==
    /\ h_pc = "c_score"
    /\ h_calls' = Append(h_calls, "calculate_viral_score")
    /\ \E g \in GeminiOutcomes :
          LET r == CallViralScore(ContentCallArgs, h_transcript, h_meta.title,
                                  h_meta.view_count, h_meta.like_count, g)
          IN  /\ h_score' = IF r.raised THEN ContentDefaultScore ELSE r.value
              /\ h_failed' = IF r.raised THEN h_failed \cup {"score"} ELSE h_failed
    /\ h_pc' = "c_respond"
    /\ UNCHANGED <<h_req, h_meta, h_transcript, h_summary, h_explanation, h_recs,
                   h_resp, h_pending, h_fs, h_tmp, h_text, s_vars, d_vars>>

\* lines 105-128
ContentRespond ==
    /\ h_pc = "c_respond"
    /\ h_resp' = AnalyzeResponse(h_meta, h_summary, h_score, ContentLabel(h_score),
                                 h_explanation, h_recs, "")
    /\ h_pc' = "done"
    /\ UNCHANGED <<h_req, h_meta, h_transcript, h_summary, h_explanation, h_recs,
                   h_score, h_pending, h_calls, h_failed, h_fs, h_tmp, h_text, s_vars, d_vars>>

-----------------------------------------------------------------------------
(* api/routers/analyze.py : analyze_document and extract_text_from_document *)

AllowedExtensions ==
    {<<".","p","d","f">>, <<".","d","o","c">>, <<".","d","o","c","x">>, <<".","t","x","t">>, <<".","p","p","t">>, <<".","p","p","t","x">>}

\* pathlib: the last component of the path
PathName(path) ==
    LET slashes == {i \in 1..Len(path) : path[i] = "/"}
    IN  IF slashes = {} THEN path
        ELSE SubSeq(path, (CHOOSE i \in slashes : \A j \in slashes : j <= i) + 1, Len(path))

\* Path(p).suffix: from the last dot of the name, unless the name starts or
\* ends with that dot
PathSuffix(path) ==
    LET name == PathName(path)
        dots == {i \in 1..Len(name) : name[i] = "."}
    IN  IF dots = {} THEN <<>>
        ELSE LET i == CHOOSE d \in dots : \A e \in dots : e <= d
             IN  IF 1 < i /\ i < Len(name) THEN SubSeq(name, i, Len(name)) ELSE <<>>

\* line 143: Path(file.filename or '').suffix.lower()
FileExtension(filename) ==
    Lower(PathSuffix(IF filename = NoneVal THEN <<>> ELSE filename))

\* line 176: file.filename or "Document"
DocumentTitle(filename) ==
    IF filename = NoneVal \/ filename = <<>> THEN <<"D","o","c","u","m","e","n","t">> ELSE filename

PdfMockText ==
    <<"\n"," "," "," "," "," "," "," "," "," "," "," "," ","T","h","i","s"," ","i","s"," ","a"," ","c","o","m","p","r","e","h","e","n","s","i","v","e"," ","b","u","s","i","n","e","s","s"," ","d","o","c","u","m","e","n","t"," ","c","o","n","t","a","i","n","i","n","g"," ","s","t","r","a","t","e","g","i","c"," ","i","n","s","i","g","h","t","s"," ","a","n","d"," ","a","n","a","l","y","s","i","s",".","\n"," "," "," "," "," "," "," "," "," "," "," "," ","T","h","e"," ","d","o","c","u","m","e","n","t"," ","c","o","v","e","r","s"," ","m","a","r","k","e","t"," ","r","e","s","e","a","r","c","h",","," ","c","o","m","p","e","t","i","t","i","v","e"," ","a","n","a","l","y","s","i","s",","," ","a","n","d"," ","g","r","o","w","t","h"," ","s","t","r","a","t","e","g","i","e","s",".","\n"," "," "," "," "," "," "," "," "," "," "," "," ","K","e","y"," ","f","i","n","d","i","n","g","s"," ","i","n","c","l","u","d","e"," ","e","m","e","r","g","i","n","g"," ","t","r","e","n","d","s",","," ","c","u","s","t","o","m","e","r"," ","b","e","h","a","v","i","o","r"," ","p","a","t","t","e","r","n","s",","," ","a","n","d"," ","r","e","c","o","m","m","e","n","d","a","t","i","o","n","s","\n"," "," "," "," "," "," "," "," "," "," "," "," ","f","o","r"," ","i","m","p","r","o","v","i","n","g"," ","b","u","s","i","n","e","s","s"," ","p","e","r","f","o","r","m","a","n","c","e","."," ","T","h","e"," ","c","o","n","t","e","n","t"," ","p","r","o","v","i","d","e","s"," ","v","a","l","u","a","b","l","e"," ","d","a","t","a","-","d","r","i","v","e","n"," ","i","n","s","i","g","h","t","s","\n"," "," "," "," "," "," "," "," "," "," "," "," ","t","h","a","t"," ","c","a","n"," ","b","e"," ","l","e","v","e","r","a","g","e","d"," ","f","o","r"," ","c","o","n","t","e","n","t"," ","c","r","e","a","t","i","o","n"," ","a","n","d"," ","m","a","r","k","e","t","i","n","g"," ","s","t","r","a","t","e","g","i","e","s",".","\n"," "," "," "," "," "," "," "," "," "," "," "," ">>

WordMockText ==
    <<"\n"," "," "," "," "," "," "," "," "," "," "," "," ","T","h","i","s"," ","W","o","r","d"," ","d","o","c","u","m","e","n","t"," ","c","o","n","t","a","i","n","s"," ","d","e","t","a","i","l","e","d"," ","p","r","o","j","e","c","t"," ","i","n","f","o","r","m","a","t","i","o","n"," ","a","n","d"," ","a","n","a","l","y","s","i","s",".","\n"," "," "," "," "," "," "," "," "," "," "," "," ","T","h","e"," ","c","o","n","t","e","n","t"," ","i","n","c","l","u","d","e","s"," ","c","o","m","p","r","e","h","e","n","s","i","v","e"," ","r","e","s","e","a","r","c","h"," ","f","i","n","d","i","n","g","s",","," ","m","e","t","h","o","d","o","l","o","g","y"," ","e","x","p","l","a","n","a","t","i","o","n","s",",","\n"," "," "," "," "," "," "," "," "," "," "," "," ","a","n","d"," ","a","c","t","i","o","n","a","b","l","e"," ","r","e","c","o","m","m","e","n","d","a","t","i","o","n","s","."," ","T","h","e"," ","d","o","c","u","m","e","n","t"," ","s","t","r","u","c","t","u","r","e"," ","f","o","l","l","o","w","s"," ","p","r","o","f","e","s","s","i","o","n","a","l","\n"," "," "," "," "," "," "," "," "," "," "," "," ","s","t","a","n","d","a","r","d","s"," ","w","i","t","h"," ","c","l","e","a","r"," ","s","e","c","t","i","o","n","s"," ","c","o","v","e","r","i","n","g"," ","b","a","c","k","g","r","o","u","n","d",","," ","a","n","a","l","y","s","i","s",","," ","a","n","d"," ","c","o","n","c","l","u","s","i","o","n","s",".","\n"," "," "," "," "," "," "," "," "," "," "," "," ","T","h","i","s"," ","m","a","t","e","r","i","a","l"," ","c","o","u","l","d"," ","b","e"," ","a","d","a","p","t","e","d"," ","i","n","t","o"," ","e","n","g","a","g","i","n","g"," ","e","d","u","c","a","t","i","o","n","a","l"," ","c","o","n","t","e","n","t"," ","o","r"," ","t","u","t","o","r","i","a","l","s",".","\n"," "," "," "," "," "," "," "," "," "," "," "," ">>

SlidesMockText ==
    <<"\n"," "," "," "," "," "," "," "," "," "," "," "," ","T","h","i","s"," ","p","r","e","s","e","n","t","a","t","i","o","n"," ","c","o","n","t","a","i","n","s"," ","e","n","g","a","g","i","n","g"," ","v","i","s","u","a","l"," ","c","o","n","t","e","n","t"," ","a","n","d"," ","k","e","y"," ","i","n","s","i","g","h","t","s",".","\n"," "," "," "," "," "," "," "," "," "," "," "," ","T","h","e"," ","s","l","i","d","e","s"," ","c","o","v","e","r"," ","i","m","p","o","r","t","a","n","t"," ","t","o","p","i","c","s"," ","w","i","t","h"," ","c","l","e","a","r"," ","e","x","p","l","a","n","a","t","i","o","n","s"," ","a","n","d"," ","e","x","a","m","p","l","e","s",".","\n"," "," "," "," "," "," "," "," "," "," "," "," ","T","h","e"," ","p","r","e","s","e","n","t","a","t","i","o","n"," ","s","t","r","u","c","t","u","r","e"," ","i","n","c","l","u","d","e","s"," ","i","n","t","r","o","d","u","c","t","i","o","n",","," ","m","a","i","n"," ","c","o","n","c","e","p","t","s",","," ","c","a","s","e"," ","s","t","u","d","i","e","s",",","\n"," "," "," "," "," "," "," "," "," "," "," "," ","a","n","d"," ","c","o","n","c","l","u","s","i","o","n","s","."," ","T","h","i","s"," ","c","o","n","t","e","n","t"," ","h","a","s"," ","s","t","r","o","n","g"," ","p","o","t","e","n","t","i","a","l"," ","f","o","r"," ","c","r","e","a","t","i","n","g"," ","v","i","r","a","l","\n"," "," "," "," "," "," "," "," "," "," "," "," ","e","d","u","c","a","t","i","o","n","a","l"," ","v","i","d","e","o","s"," ","o","r"," ","s","o","c","i","a","l"," ","m","e","d","i","a"," ","c","o","n","t","e","n","t"," ","s","e","r","i","e","s",".","\n"," "," "," "," "," "," "," "," "," "," "," "," ">>

\* the bytes of an upload that are not valid UTF-8
Undecodable == <<"<bytes>">>

\* lines 226-271: stored is what the temporary file holds
ExtractText(stored, ext) ==
    IF ext = <<".","t","x","t">>
    THEN IF stored = Undecodable
         THEN [raised |-> TRUE, text |-> <<>>]
         ELSE [raised |-> FALSE, text |-> stored]
    ELSE IF ext = <<".","p","d","f">> THEN [raised |-> FALSE, text |-> PdfMockText]
    ELSE IF ext \in {<<".","d","o","c">>, <<".","d","o","c","x">>} THEN [raised |-> FALSE, text |-> WordMockText]
    ELSE IF ext \in {<<".","p","p","t">>, <<".","p","p","t","x">>} THEN [raised |-> FALSE, text |-> SlidesMockText]
    ELSE [raised |-> TRUE, text |-> <<>>]

\* lines 195-200
DocumentLabel(score) ==
    IF score >= VeryHighFrom THEN "Very High Potential"
    ELSE IF score >= GoodFrom THEN "Good Potential"
    ELSE "Needs Improvement"

\* lines 185-192: the explanation is a literal, replaced when the call fails
DocumentExplanationOf(ok) ==
    IF ok THEN "document explanation" ELSE "fallback document explanation"

\* inputs of analyze_document
FileNames ==
    {NoneVal, <<>>, <<"n","o","t","e","s">>, <<".","t","x","t">>, <<"v","i","r","u","s",".","e","x","e">>, <<"a","r","c","h","i","v","e",".","t","x","t",".","g","z">>,
     <<"a",".","t","x","t">>, <<"R","E","P","O","R","T",".","P","D","F">>, <<"m","e","m","o",".","d","o","c","x">>, <<"o","l","d",".","d","o","c">>, <<"d","e","c","k",".","p","p","t","x">>, <<"u","p","/","s",".","P","p","t">>}

Uploads ==
    {<<>>, <<" "," ","t","o","o"," ","s","h","o","r","t"," "," ">>, Undecodable,
     <<"Q","u","a","r","t","e","r","l","y"," ","r","e","v","i","e","w",":"," ","p","r","o","d","u","c","t","i","v","i","t","y"," ","w","e","n","t"," ","u","p",".">>}

\* the name NamedTemporaryFile gives the file of this request
TempPath == "/tmp/tmpfile"

\* faulty variant: the extension is checked only after the upload has been
\* read into a temporary file
DocumentValidateLate ==
    /\ h_pc = "idle"
    /\ \E f \in FileNames :
          /\ h_req' = [kind |-> "document", url |-> "", filename |-> f]
          /\ IF FileExtension(f) \notin AllowedExtensions
             THEN /\ h_resp' = ErrorResponse(400)
                  /\ h_calls' = <<"NamedTemporaryFile", "file.read">>
                  /\ h_fs' = h_fs \cup {TempPath}
                  /\ h_pc' = "done"
             ELSE /\ h_resp' = h_resp
                  /\ h_calls' = h_calls
                  /\ h_fs' = h_fs
                  /\ h_pc' = "d_tempfile"
    /\ UNCHANGED <<h_meta, h_transcript, h_summary, h_explanation, h_recs, h_score,
                   h_pending, h_failed, h_tmp, h_text, s_vars, d_vars>>

\* lines 139-149
DocumentValidate ==
    /\ h_pc = "idle"
    /\ \E f \in FileNames :
          /\ h_req' = [kind |-> "document", url |-> "", filename |-> f]
          /\ IF FileExtension(f) \notin AllowedExtensions
             THEN /\ h_resp' = ErrorResponse(400)
                  /\ h_pc' = "done"
             ELSE /\ h_resp' = h_resp
                  /\ h_pc' = "d_tempfile"
    /\ UNCHANGED <<h_meta, h_transcript, h_summary, h_explanation, h_recs, h_score,
                   h_pending, h_calls, h_failed, h_fs, h_tmp, h_text, s_vars, d_vars>>

\* line 153: NamedTemporaryFile(delete=False, ...) creates the file or raises
DocumentCreateTemp ==
    /\ h_pc = "d_tempfile"
    /\ h_calls' = Append(h_calls, "NamedTemporaryFile")
    /\ \/ /\ h_fs' = h_fs \cup {TempPath}
          /\ h_tmp' = TempPath
          /\ h_pc' = "d_read"
          /\ UNCHANGED h_resp
       \/ /\ h_resp' = ErrorResponse(500)
          /\ h_pc' = "done"
          /\ UNCHANGED <<h_fs, h_tmp>>
    /\ UNCHANGED <<h_req, h_meta, h_transcript, h_summary, h_explanation, h_recs,
                   h_score, h_pending, h_failed, h_text, s_vars, d_vars>>

\* line 154: await file.read(); an exception leaves the `with` block, which
\* closes the file and keeps it (delete=False), and reaches line 222
DocumentRead ==
    /\ h_pc = "d_read"
    /\ h_calls' = Append(h_calls, "file.read")
    /\ \/ \E c \in Uploads :
             /\ h_text' = c
             /\ h_pc' = "d_write"
             /\ UNCHANGED <<h_resp, h_failed>>
       \/ /\ h_resp' = ErrorResponse(500)
          /\ h_failed' = h_failed \cup {"read"}
          /\ h_pc' = "done"
          /\ UNCHANGED h_text
    /\ UNCHANGED <<h_req, h_meta, h_transcript, h_summary, h_explanation, h_recs,
                   h_score, h_pending, h_fs, h_tmp, s_vars, d_vars>>

\* lines 155-156: temp_file.write(content) and the close at the end of `with`
DocumentWrite ==
    /\ h_pc = "d_write"
    /\ \/ /\ h_pc' = "d_extract"
          /\ UNCHANGED <<h_resp, h_failed>>
       \/ /\ h_resp' = ErrorResponse(500)
          /\ h_failed' = h_failed \cup {"write"}
          /\ h_pc' = "done"
    /\ UNCHANGED <<h_req, h_meta, h_transcript, h_summary, h_explanation, h_recs,
                   h_score, h_pending, h_calls, h_fs, h_tmp, h_text, s_vars, d_vars>>

\* lines 160-163: inside the inner try; every exit goes through `finally`
DocumentExtract ==
    /\ h_pc = "d_extract"
    /\ h_calls' = Append(h_calls, "extract_text_from_document")
    /\ LET r == ExtractText(h_text, FileExtension(h_req.filename))
       IN  IF r.raised
           THEN /\ h_pending' = ErrorResponse(500)
                /\ h_failed' = h_failed \cup {"extract"}
                /\ h_pc' = "d_finally"
                /\ UNCHANGED h_text
           ELSE IF r.text = <<>> \/ StripLen(r.text) < 20
           THEN /\ h_pending' = ErrorResponse(422)
                /\ h_pc' = "d_finally"
                /\ h_text' = r.text
                /\ UNCHANGED h_failed
           ELSE /\ h_text' = r.text
                /\ h_pc' = "d_summary"
                /\ UNCHANGED <<h_pending, h_failed>>
    /\ UNCHANGED <<h_req, h_meta, h_transcript, h_summary, h_explanation, h_recs,
                   h_score, h_resp, h_fs, h_tmp, s_vars, d_vars>>

\* lines 166-170
DocumentSummary ==
    /\ h_pc = "d_summary"
    /\ h_calls' = Append(h_calls, "summarize_transcript")
    /\ \E ok \in BOOLEAN :
          /\ h_summary' = SummaryOf(ok)
          /\ h_failed' = IF ok THEN h_failed ELSE h_failed \cup {"summary"}
    /\ h_pc' = "d_score"
    /\ UNCHANGED <<h_req, h_meta, h_transcript, h_explanation, h_recs, h_score,
                   h_resp, h_pending, h_fs, h_tmp, h_text, s_vars, d_vars>>

\* lines 173-182
DocumentScore ==
    /\ h_pc = "d_score"
    /\ h_calls' = Append(h_calls, "calculate_viral_score")
    /\ \E g \in GeminiOutcomes :
          LET r == CallViralScore(DocumentCallArgs, h_text, DocumentTitle(h_req.filename),
                                  0, 0, g)
          IN  /\ h_score' = IF r.raised THEN DocumentDefaultScore ELSE r.value
              /\ h_failed' = IF r.raised THEN h_failed \cup {"score"} ELSE h_failed
    /\ h_pc' = "d_recommend"
    /\ UNCHANGED <<h_req, h_meta, h_transcript, h_summary, h_explanation, h_recs,
                   h_resp, h_pending, h_fs, h_tmp, h_text, s_vars, d_vars>>

\* lines 185-192
DocumentRecommend ==
    /\ h_pc = "d_recommend"
    /\ h_calls' = Append(h_calls, "generate_content_idea")
    /\ \E ok \in BOOLEAN :
          /\ h_recs' = RecommendationOf(ok)
          /\ h_explanation' = DocumentExplanationOf(ok)
          /\ h_failed' = IF ok THEN h_failed ELSE h_failed \cup {"recommendation"}
    /\ h_pc' = "d_respond"
    /\ UNCHANGED <<h_req, h_meta, h_transcript, h_summary, h_score,
                   h_resp, h_pending, h_fs, h_tmp, h_text, s_vars, d_vars>>

\* lines 194-211: the return value waits for the `finally` block
DocumentRespond ==
    /\ h_pc = "d_respond"
    /\ h_pending' = AnalyzeResponse(NoMeta, h_summary, h_score, DocumentLabel(h_score),
                                    h_explanation, h_recs, h_summary)
    /\ h_pc' = "d_finally"
    /\ UNCHANGED <<h_req, h_meta, h_transcript, h_summary, h_explanation, h_recs,
                   h_score, h_resp, h_calls, h_failed, h_fs, h_tmp, h_text, s_vars, d_vars>>

\* lines 213-224: os.unlink(temp_file_path) removes the file or raises, which
\* is logged and swallowed; then the pending return value or exception leaves
DocumentCleanup ==
    /\ h_pc = "d_finally"
    /\ h_calls' = Append(h_calls, "os.unlink")
    /\ \/ /\ h_fs' = h_fs \ {h_tmp}
          /\ UNCHANGED h_failed
       \/ /\ h_failed' = h_failed \cup {"unlink"}
          /\ UNCHANGED h_fs
    /\ h_resp' = h_pending
    /\ h_pc' = "done"
    /\ UNCHANGED <<h_req, h_meta, h_transcript, h_summary, h_explanation, h_recs,
                   h_score, h_pending, h_tmp, h_text, s_vars, d_vars>>


-----------------------------------------------------------------------------
(* The request handlers, one request from arrival to its response *)

\* the scoring service is not running on its own
ScoreIdle ==
    /\ s_pc = "idle"
    /\ s_in = [content |-> <<>>, title |-> <<>>, views |-> 0, likes |-> 0]
    /\ s_category = "none"
    /\ s_gemini = NoGemini
    /\ s_words = <<>>
    /\ s_parts = NoParts
    /\ s_result = -1

Init == ScoreIdle /\ HandlerIdle /\ DurationIdle

Next ==
    \/ ContentValidate
    \/ ContentMetadata
    \/ ContentTranscript
    \/ ContentSummary
    \/ ContentExplain
    \/ ContentRecommend
    \/ ContentScore
    \/ ContentRespond
    \/ DocumentValidate
    \/ DocumentCreateTemp
    \/ DocumentRead
    \/ DocumentWrite
    \/ DocumentExtract
    \/ DocumentSummary
    \/ DocumentScore
    \/ DocumentRecommend
    \/ DocumentRespond
    \/ DocumentCleanup

Spec == Init /\ [][Next]_vars

-----------------------------------------------------------------------------
(* api/utils/youtube.py : _parse_duration *)

Digits == <<"0","1","2","3","4","5","6","7","8","9">>

IsDigit(c) == \E i \in 1..Len(Digits) : Digits[i] = c

DigitValue(c) == (CHOOSE i \in 1..Len(Digits) : Digits[i] = c) - 1

RECURSIVE DigitsToInt(_)
\* int(ds) for a non-empty string of decimal digits
DigitsToInt(ds) ==
    IF Len(ds) = 1 THEN DigitValue(ds[1])
    ELSE 10 * DigitsToInt(SubSeq(ds, 1, Len(ds) - 1)) + DigitValue(ds[Len(ds)])

\* duration_str.startswith('PT')
StartsWithPT(s) == Len(s) >= 2 /\ s[1] = "P" /\ s[2] = "T"

\* the length of the longest run of digits of s that starts at pos
DigitRun(s, pos) ==
    LET stops == {i \in pos..(Len(s) + 1) : i = Len(s) + 1 \/ ~IsDigit(s[i])}
    IN  (CHOOSE i \in stops : \A j \in stops : i <= j) - pos

\* one optional group (?:(\d+)X)? tried at pos: the digits and the position
\* after the unit letter, or no group and the same position
MatchComponent(s, pos, unit) ==
    LET n == DigitRun(s, pos)
    IN  IF n >= 1 /\ pos + n <= Len(s) /\ s[pos + n] = unit
        THEN [group |-> SubSeq(s, pos, pos + n - 1), next |-> pos + n + 1]
        ELSE [group |-> NoneVal, next |-> pos]

\* re.match(r'(?:(\d+)H)?(?:(\d+)M)?(?:(\d+)S)?', s).groups(): anchored at
\* the start only, and every group optional, so it matches any string
ReMatchDuration(s) ==
    LET h == MatchComponent(s, 1, "H")
        m == MatchComponent(s, h.next, "M")
        sec == MatchComponent(s, m.next, "S")
    IN  [hours |-> h.group, minutes |-> m.group, seconds |-> sec.group]

\* lines 42-46
DurationTotal(g) ==
    (IF g.hours # NoneVal THEN DigitsToInt(g.hours) * 3600 ELSE 0)
    + (IF g.minutes # NoneVal THEN DigitsToInt(g.minutes) * 60 ELSE 0)
    + (IF g.seconds # NoneVal THEN DigitsToInt(g.seconds) ELSE 0)

\* line 32: not duration_str or not duration_str.startswith('PT')
DurationRejected(s) == s = NoneVal \/ s = <<>> \/ ~StartsWithPT(s)

\* the whole of _parse_duration
ParseDuration(s) ==
    IF DurationRejected(s) THEN 0
    ELSE DurationTotal(ReMatchDuration(SubSeq(s, 3, Len(s))))

\* inputs of _parse_duration: a prefix, up to three components and a tail
DurationPrefixes == {<<"P","T">>, <<>>, <<"P">>, <<"p","t">>, <<"T">>}
DurationHours    == {<<>>, <<"1","H">>, <<"1","2","H">>}
DurationMinutes  == {<<>>, <<"2","M">>}
DurationSeconds  == {<<>>, <<"3","S">>, <<"4","5","S">>}
DurationTails    == {<<>>, <<"g","a","r","b","a","g","e">>, <<"7">>, <<"1","H">>}

DurationInputs ==
    {NoneVal}
    \cup {p \o h \o m \o sec \o t :
            p \in DurationPrefixes, h \in DurationHours, m \in DurationMinutes,
            sec \in DurationSeconds, t \in DurationTails}

InitDuration ==
    /\ ScoreIdle
    /\ HandlerIdle
    /\ d_pc = "called"
    /\ d_in \in DurationInputs
    /\ d_rest = <<>>
    /\ d_groups = NoGroups
    /\ d_out = -1

\* lines 32-36
DurationCheckPrefix ==
    /\ d_pc = "called"
    /\ IF DurationRejected(d_in)
       THEN /\ d_out' = 0
            /\ d_pc' = "returned"
            /\ UNCHANGED d_rest
       ELSE /\ d_rest' = SubSeq(d_in, 3, Len(d_in))
            /\ d_pc' = "match"
            /\ UNCHANGED d_out
    /\ UNCHANGED <<d_in, d_groups, s_vars, h_vars>>

\* lines 37-42: re.match never returns None for this pattern
DurationMatch ==
    /\ d_pc = "match"
    /\ d_groups' = ReMatchDuration(d_rest)
    /\ d_pc' = "sum"
    /\ UNCHANGED <<d_in, d_rest, d_out, s_vars, h_vars>>

\* lines 43-46
DurationSum ==
    /\ d_pc = "sum"
    /\ d_out' = DurationTotal(d_groups)
    /\ d_pc' = "returned"
    /\ UNCHANGED <<d_in, d_rest, d_groups, s_vars, h_vars>>

NextDuration == DurationCheckPrefix \/ DurationMatch \/ DurationSum

SpecDuration == InitDuration /\ [][NextDuration]_vars

-----------------------------------------------------------------------------
(* Properties of the scoring service, checked under SpecScore *)

\* the call ran to the end of the try block (no exception)
ScoreComputed == s_pc = "returned" /\ ~ScoreArgsRaise(s_in.content, s_in.title)

\* C1: whatever the content, title, view count, like count and engaging-words
\* list (dynamic, empty or the fixed fallback), the value calculate_viral_score
\* returns is an integer in [0,100], also when the computation raised and the
\* default was returned.
C1_ScoreInRange ==
    s_pc = "returned" => s_result \in 0..100

\* C1 witness: a score computed with the fallback list reaches the top of the
\* range the five increments allow.
C1_Witness ==
    /\ ScoreComputed
    /\ s_gemini.raised
    /\ s_in.views > 1000
    /\ s_result = 80

\* C4: the category is the first of tech, business, tutorial, entertainment,
\* education with a keyword occurring in the lower-cased title + " " + content,
\* and "general" when no keyword occurs; tech wins over business.
C4_FirstMatch ==
    s_pc = "await_words" =>
        LET text == Lower(s_in.title \o <<" ">> \o s_in.content)
            Has(cat) == \E k \in 1..Len(CategoryKeywords[cat]) :
                            IsSubstr(CategoryKeywords[cat][k], text)
        IN  /\ Has("tech") => s_category = "tech"
            /\ (~Has("tech") /\ Has("business")) => s_category = "business"
            /\ (~Has("tech") /\ ~Has("business") /\ Has("tutorial"))
                  => s_category = "tutorial"
            /\ (~Has("tech") /\ ~Has("business") /\ ~Has("tutorial")
                /\ Has("entertainment")) => s_category = "entertainment"
            /\ (~Has("tech") /\ ~Has("business") /\ ~Has("tutorial")
                /\ ~Has("entertainment") /\ Has("education"))
                  => s_category = "education"
            /\ (~Has("tech") /\ ~Has("business") /\ ~Has("tutorial")
                /\ ~Has("entertainment") /\ ~Has("education"))
                  => s_category = "general"
            /\ (s_in.title = <<>> /\ s_in.content = <<>>) => s_category = "general"

\* C4 witness: a text with a tech keyword and a business keyword resolved to tech.
C4_Witness ==
    /\ s_pc = "await_words"
    /\ s_in.title = <<>>
    /\ s_in.content = <<"A","I"," ","m","a","r","k","e","t","i","n","g">>
    /\ s_category = "tech"

\* C5: the engagement increment is 10 for views <= 1000 whatever the likes;
\* for views > 1000 it is 25 when likes/views > 0.05, else 20 when > 0.03,
\* else 15 when > 0.015, else 10, every comparison strict.
C5_Engagement ==
    ScoreComputed =>
        LET v == s_in.views
            l == s_in.likes
        IN  /\ v <= 1000 => s_parts.engagement = 10
            /\ (v > 1000 /\ 20 * l > v) => s_parts.engagement = 25
            /\ (v > 1000 /\ 20 * l <= v /\ 100 * l > 3 * v) => s_parts.engagement = 20
            /\ (v > 1000 /\ 100 * l <= 3 * v /\ 200 * l > 3 * v) => s_parts.engagement = 15
            /\ (v > 1000 /\ 200 * l <= 3 * v) => s_parts.engagement = 10
            /\ (v = 2000 /\ l = 120) => s_parts.engagement = 25
            /\ (v = 2000 /\ l = 100) => s_parts.engagement = 20

\* C5 witness: a ratio of exactly 0.05 stays in the +20 band.
C5_Witness ==
    /\ ScoreComputed
    /\ s_in.views = 2000
    /\ s_in.likes = 100
    /\ s_parts.engagement = 20

\* C6: the length increment is 10 exactly when the whitespace-split word count
\* of the content is in [150,700], and 5 otherwise.
C6_Length ==
    ScoreComputed =>
        /\ s_parts.length = (IF WordCount(s_in.content) \in 150..700 THEN 10 ELSE 5)
        /\ s_in.content = RepeatWord(149) => s_parts.length = 5
        /\ s_in.content = RepeatWord(150) => s_parts.length = 10
        /\ s_in.content = RepeatWord(700) => s_parts.length = 10
        /\ s_in.content = RepeatWord(701) => s_parts.length = 5
        /\ s_in.content = <<>> => s_parts.length = 5

\* C6 witness: a content of exactly 150 words got +10.
C6_Witness ==
    /\ ScoreComputed
    /\ WordCount(s_in.content) = 150
    /\ s_parts.length = 10

\* C7: the title increment is min(8 * number of entries of the engaging-words
\* list occurring in the lower-cased title, 20); it is 0 for an empty list.
C7_TitleCap ==
    ScoreComputed =>
        LET hits == Cardinality({i \in 1..Len(s_words) :
                                    IsSubstr(s_words[i], Lower(s_in.title))})
        IN  /\ s_parts.title = (IF 8 * hits < 20 THEN 8 * hits ELSE 20)
            /\ s_parts.title <= 20
            /\ s_words = <<>> => s_parts.title = 0

\* C7 witness: ten engaging words match the title and the increment is 20.
C7_Witness ==
    /\ ScoreComputed
    /\ Cardinality({i \in 1..Len(s_words) :
                       IsSubstr(s_words[i], Lower(s_in.title))}) >= 10
    /\ s_parts.title = 20

\* the engaging words have been fetched
WordsFetched == s_pc \in {"compute", "returned"} /\ ~ScoreArgsRaise(s_in.content, s_in.title)

\* C8 as stated: a reply that has no JSON object, fails to parse, lacks the key
\* or holds something else than a list of strings gives the empty list; the
\* fallback list is returned only when the external call itself raises.
C8_Original ==
    WordsFetched =>
        /\ s_words = FallbackWords => s_gemini.raised
        /\ (~s_gemini.raised /\ ~JsonValid(ReSearchBraces(s_gemini.text)))
              => s_words = <<>>

\* C8 amended: the empty list is returned when the reply has no JSON-object
\* substring, or the parsed object lacks engaging_words or holds something else
\* than a list of strings; the fallback list is returned when the external call
\* raises and also when the matched substring fails to parse as JSON.
C8_Amended ==
    WordsFetched =>
        LET span == ReSearchBraces(s_gemini.text)
        IN  /\ s_gemini.raised => s_words = FallbackWords
            /\ (~s_gemini.raised /\ span = <<>>) => s_words = <<>>
            /\ (~s_gemini.raised /\ span # <<>> /\ ~JsonValid(span))
                  => s_words = FallbackWords
            /\ (~s_gemini.raised /\ JsonValid(span)
                /\ \A i \in 1..Len(span) : span[i] # KeyEngaging)
                  => s_words = <<>>
            /\ (~s_gemini.raised /\ JsonValid(span)
                /\ \E i \in 1..Len(span) :
                      /\ span[i].k = "value"
                      /\ i > 1
                      /\ span[i - 1] = KeyEngaging
                      /\ \A j \in (i + 1)..Len(span) : span[j] # KeyEngaging
                      /\ (~span[i].isList
                          \/ \E n \in 1..Len(span[i].items) : ~span[i].items[n].isStr))
                  => s_words = <<>>

\* C8 witness: the call returned, the matched span was not valid JSON and the
\* fallback list came back.
C8_Witness ==
    /\ WordsFetched
    /\ ~s_gemini.raised
    /\ ReSearchBraces(s_gemini.text) # <<>>
    /\ ~JsonValid(ReSearchBraces(s_gemini.text))
    /\ s_words = FallbackWords

-----------------------------------------------------------------------------
(* The label code of both handlers, applied to every score in [0,100] *)

LabelMeta ==
    [title |-> <<"A","I"," ","M","a","r","k","e","t","i","n","g"," ","S","e","c","r","e","t","s">>, channel_name |-> <<"C","h","a","n">>,
     view_count |-> 2000, like_count |-> 120, present |-> TRUE]

\* a handler that has bound viral_score and is about to derive the label
InitLabel ==
    /\ ScoreIdle
    /\ DurationIdle
    /\ h_score \in ScoreFloor..ScoreCeiling
    /\ h_summary = SummaryOf(TRUE)
    /\ h_resp = NoResponse
    /\ h_pending = NoResponse
    /\ h_failed = {}
    /\ \/ /\ h_pc = "c_respond"
          /\ h_req = [kind |-> "content", url |-> "https://youtu.be/xyz789", filename |-> <<>>]
          /\ h_meta = LabelMeta
          /\ h_transcript = LongTranscript
          /\ h_explanation = ExplanationOf(TRUE)
          /\ h_recs = RecommendationOf(TRUE)
          /\ h_calls = <<"get_video_metadata", "get_transcript", "summarize_transcript",
                         "explain_why_viral", "generate_content_idea",
                         "calculate_viral_score">>
          /\ h_fs = {}
          /\ h_tmp = ""
          /\ h_text = <<>>
       \/ /\ h_pc = "d_respond"
          /\ h_req = [kind |-> "document", url |-> "", filename |-> <<"R","E","P","O","R","T",".","P","D","F">>]
          /\ h_meta = NoMeta
          /\ h_transcript = <<>>
          /\ h_explanation = DocumentExplanationOf(TRUE)
          /\ h_recs = RecommendationOf(TRUE)
          /\ h_calls = <<"NamedTemporaryFile", "file.read", "extract_text_from_document",
                         "summarize_transcript", "calculate_viral_score",
                         "generate_content_idea">>
          /\ h_fs = {TempPath}
          /\ h_tmp = TempPath
          /\ h_text = PdfMockText

NextLabel == ContentRespond \/ DocumentRespond

SpecLabel == InitLabel /\ [][NextLabel]_vars

-----------------------------------------------------------------------------
(* Properties of the handlers *)

\* the label of a complete response follows the thresholds
LabelFollowsScore(r) ==
    r.status = 200 =>
        /\ r.viral_score >= 80 => r.viral_label = "Very High Potential"
        /\ (60 <= r.viral_score /\ r.viral_score < 80) => r.viral_label = "Good Potential"
        /\ r.viral_score < 60 => r.viral_label = "Needs Improvement"

\* C2: in every response of analyze_content and of analyze_document the label
\* is determined by the response's own score: >= 80 "Very High Potential",
\* 60..79 "Good Potential", below 60 "Needs Improvement"; the defaults 65 and 70
\* are labelled the same way.
C2_LabelThresholds ==
    /\ LabelFollowsScore(h_resp)
    /\ LabelFollowsScore(h_pending)
    /\ h_resp.status = 200 => h_resp.viral_score = h_score
    /\ h_pending.status = 200 => h_pending.viral_score = h_score

\* C2 witness: analyze_content answered with the score 80, on the boundary.
C2_Witness ==
    /\ h_req.kind = "content"
    /\ h_resp.status = 200
    /\ h_resp.viral_score = 80
    /\ h_resp.viral_label = "Very High Potential"

\* C3 as stated: when the metadata was fetched, the viral_score of the response
\* is the value of the scoring formula for (transcript, title, views, likes)
\* under some reply of the engaging-words provider; 65 stands in only when the
\* computation raised.
C3_Original ==
    (h_pc = "done" /\ h_req.kind = "content" /\ h_resp.status = 200) =>
        \/ \E g \in GeminiOutcomes :
              h_resp.viral_score =
                  FinalScore(h_transcript, h_meta.title, h_meta.view_count,
                             h_meta.like_count, GetDynamicEngagingWords(g))
        \/ /\ h_resp.viral_score = 65
           /\ ScoreArgsRaise(h_transcript, h_meta.title)

ContentCalls ==
    <<"get_video_metadata", "get_transcript", "summarize_transcript",
      "explain_why_viral", "generate_content_idea", "calculate_viral_score">>

\* C9: once the metadata provider has returned metadata, analyze_content never
\* answers with an error; it runs every later step whatever failed before, ends
\* with a complete response, and every failed step shows its fallback value.
C9_NeverFails ==
    (h_req.kind = "content" /\ h_meta.present) =>
        /\ h_resp.status \in {0, 200}
        /\ h_pc # "done" => ENABLED Next
        /\ h_pc = "done" =>
              /\ h_resp.status = 200
              /\ h_calls = ContentCalls
              /\ h_resp.video_metadata = h_meta
              /\ h_resp.summary =
                    (IF "summary" \in h_failed THEN "fallback summary"
                     ELSE "summary from the model")
              /\ h_resp.viral_explanation =
                    (IF "explanation" \in h_failed THEN "fallback explanation"
                     ELSE "explanation from the model")
              /\ h_resp.recommendations =
                    (IF "recommendation" \in h_failed THEN "fallback recommendation"
                     ELSE "recommendation from the model")
              /\ "score" \in h_failed => h_resp.viral_score = 65
              /\ h_resp.viral_label \in
                    {"Very High Potential", "Good Potential", "Needs Improvement"}
              /\ StripLen(h_transcript) >= 10

\* C9 witness: the transcript, summary, explanation, recommendation and scoring
\* steps all failed and the request still ended with a complete response.
C9_Witness ==
    /\ h_pc = "done"
    /\ h_req.kind = "content"
    /\ {"processing_error", "summary", "explanation", "recommendation", "score"}
          \subseteq h_failed
    /\ h_resp.status = 200

\* C10 as stated: when analyze_document has returned or raised, no temporary
\* file it created for the upload exists any more.
C10_Original ==
    (h_pc = "done" /\ h_req.kind = "document") => h_fs = {}

\* the extension of an upload name as the claim reads it: the lower-cased
\* text from the last dot of the name, nothing for a missing name, a name
\* without a dot or a name that is only an extension
UnsupportedNames ==
    {NoneVal, <<>>, <<"n","o","t","e","s">>, <<".","t","x","t">>, <<"v","i","r","u","s",".","e","x","e">>, <<"a","r","c","h","i","v","e",".","t","x","t",".","g","z">>}

SupportedNames ==
    {<<"a",".","t","x","t">>, <<"R","E","P","O","R","T",".","P","D","F">>, <<"m","e","m","o",".","d","o","c","x">>, <<"o","l","d",".","d","o","c">>, <<"d","e","c","k",".","p","p","t","x">>, <<"u","p","/","s",".","P","p","t">>}

\* C11: an upload whose lower-cased extension is not .pdf, .doc, .docx, .txt,
\* .ppt or .pptx (a missing filename and a name without extension included) is
\* rejected with a 400 before the upload is read, before a temporary file is
\* created and before any extraction, summarization or scoring call.
C11_RejectedBeforeIO ==
    (h_req.kind = "document" /\ h_req.filename \in UnsupportedNames) =>
        /\ h_pc = "done"
        /\ h_resp.status = 400
        /\ h_calls = <<>>
        /\ h_fs = {}
        /\ h_tmp = ""
        /\ h_failed = {}

\* C11 witness: virus.exe was rejected with a 400 and nothing had been called.
C11_Witness ==
    /\ h_req.kind = "document"
    /\ h_req.filename = <<"v","i","r","u","s",".","e","x","e">>
    /\ h_resp.status = 400
    /\ h_calls = <<>>
    /\ h_fs = {}

\* every upload name drawn is classified, and the supported ones pass the check
UploadNamesClassified ==
    /\ FileNames = UnsupportedNames \cup SupportedNames
    /\ (h_req.kind = "document" /\ h_req.filename \in SupportedNames)
          => h_resp.status # 400

-----------------------------------------------------------------------------
(* Properties of _parse_duration, checked under SpecDuration *)

\* the component values the drawn durations use; 0 stands for "absent"
DurationValues == {0, 1, 2, 3, 7, 12, 45}

\* the text of one component: nothing when absent, else the number and its unit
ComponentText(v, unit) == IF v = 0 THEN <<>> ELSE IntToStr(v) \o <<unit>>

\* PT[#H][#M][#S] written out for the hours, minutes and seconds h, m, s
IsoText(h, m, s) ==
    <<"P","T">> \o ComponentText(h, "H") \o ComponentText(m, "M") \o ComponentText(s, "S")

\* what the claim says _parse_duration returns for txt
ClaimedDuration(txt) ==
    LET fits == {hms \in DurationValues \X DurationValues \X DurationValues :
                    txt = IsoText(hms[1], hms[2], hms[3])}
    IN  IF fits = {} THEN 0
        ELSE LET hms == CHOOSE x \in fits : TRUE
             IN  hms[1] * 3600 + hms[2] * 60 + hms[3]

\* C12 as stated: PT[#H][#M][#S] gives hours*3600 + minutes*60 + seconds
\* (PT1H2M3S 3723, PT45S 45, PT 0), and every empty, absent, non-PT-prefixed or
\* otherwise malformed string gives 0, a valid leading component followed by
\* garbage included.
C12_Original ==
    d_pc = "returned" =>
        /\ d_out = ClaimedDuration(d_in)
        /\ d_in = <<"P","T","1","H","2","M","3","S">> => d_out = 3723
        /\ d_in = <<"P","T","4","5","S">> => d_out = 45
        /\ d_in = <<"P","T">> => d_out = 0

\* the well-formed half of C12, and the rejected prefixes, do hold
DurationWellFormedHolds ==
    d_pc = "returned" =>
        /\ ClaimedDuration(d_in) # 0 => d_out = ClaimedDuration(d_in)
        /\ (d_in = NoneVal \/ Len(d_in) < 2 \/ d_in[1] # "P" \/ d_in[2] # "T")
              => d_out = 0
        /\ d_in = <<"P","T">> => d_out = 0

====
